---- MODULE Spec2Model ----
(***************************************************************************)
(* A model of the data core of the Bitcoin dashboard:                      *)
(*   utils/data_loader.py  BitcoinDataLoader                               *)
(*   app.py                the Refresh button and the loading pipeline     *)
(*                                                                         *)
(* Numbers.  The program computes in float64.  The model computes in exact *)
(* rationals: a cell is <<>> (NaN / None / NaT), or <<n, d>> with d > 0    *)
(* and gcd(n, d) = 1, or <<1, 0>> / <<-1, 0>> (+inf / -inf).  A standard   *)
(* deviation is irrational in general, so it is kept as a root             *)
(* <<s, n, d>> = s * sqrt(n / d), s in {0, 1, -1}.  Rounding error of the  *)
(* float operations is not modelled.                                       *)
(*                                                                         *)
(* Units.  The model's integers are 32 bits wide, so volume, market_cap    *)
(* and total_volume are held in millions of dollars and the circulating    *)
(* supply in millions of coins: 1,000,000 is Num(1), 19000000 is Supply.   *)
(* Dates and the clock are in seconds.                                     *)
(***************************************************************************)
EXTENDS Integers, Sequences, FiniteSets, TLC

VARIABLES now, bundled, rng, seriesCache, statsCache, df, ret

vars == <<now, bundled, rng, seriesCache, statsCache, df, ret>>

(***************************************************************************)
(* Bounds of the model.                                                    *)
(***************************************************************************)
MaxLen == 3
MaxDate == 2
MaxPoints == 2

\* 19000000 coins, in millions.
Supply == 19

(***************************************************************************)
(* float64 arithmetic, exact.                                              *)
(***************************************************************************)
Null == <<>>

IsNull(c) == Len(c) = 0

Abs(x) == IF x < 0 THEN -x ELSE x

Sign(x) == IF x < 0 THEN -1 ELSE IF x > 0 THEN 1 ELSE 0

RECURSIVE GCD(_, _)
GCD(a, b) == IF b = 0 THEN a ELSE GCD(b, a % b)

\* n / d as a cell: x/0 is +-inf, 0/0 is NaN (IEEE 754, as numpy divides).
Q(n, d) ==
    IF d = 0
    THEN (IF n = 0 THEN Null ELSE <<Sign(n), 0>>)
    ELSE LET g == GCD(Abs(n), Abs(d))
             s == Sign(d)
         IN  <<(s * n) \div g, (s * d) \div g>>

Num(v) == <<v, 1>>

RAdd(a, b) ==
    IF IsNull(a) \/ IsNull(b) THEN Null
    ELSE Q(a[1] * b[2] + b[1] * a[2], a[2] * b[2])

RSub(a, b) ==
    IF IsNull(a) \/ IsNull(b) THEN Null
    ELSE Q(a[1] * b[2] - b[1] * a[2], a[2] * b[2])

RMul(a, b) ==
    IF IsNull(a) \/ IsNull(b) THEN Null
    ELSE Q(a[1] * b[1], a[2] * b[2])

RDiv(a, b) ==
    IF IsNull(a) \/ IsNull(b) THEN Null
    ELSE Q(a[1] * b[2], a[2] * b[1])

\* a < b; any comparison with NaN is False.
RLess(a, b) ==
    /\ ~IsNull(a)
    /\ ~IsNull(b)
    /\ a # b
    /\ IF a[2] = 0 THEN a[1] < 0
       ELSE IF b[2] = 0 THEN b[1] > 0
       ELSE a[1] * b[2] < b[1] * a[2]

RLeq(a, b) == ~IsNull(a) /\ ~IsNull(b) /\ (a = b \/ RLess(a, b))

\* pandas reductions skip NaN (skipna=True).
NonNull(s) == SelectSeq(s, LAMBDA c : ~IsNull(c))

\* The sum of s[lo..hi], halving the range (exact sums do not depend on the order).
RECURSIVE RSumRange(_, _, _)
RSumRange(s, lo, hi) ==
    IF lo > hi THEN Num(0)
    ELSE IF lo = hi THEN s[lo]
    ELSE LET mid == (lo + hi) \div 2
         IN  RAdd(RSumRange(s, lo, mid), RSumRange(s, mid + 1, hi))

RSum(s) == RSumRange(s, 1, Len(s))

SeriesMean(s) ==
    LET v == NonNull(s)
    IN  IF Len(v) = 0 THEN Null ELSE RDiv(RSum(v), Num(Len(v)))

SeriesMax(s) ==
    LET v == NonNull(s)
    IN  IF Len(v) = 0 THEN Null
        ELSE CHOOSE x \in {v[i] : i \in 1..Len(v)} :
                 \A j \in 1..Len(v) : ~RLess(x, v[j])

SeriesMin(s) ==
    LET v == NonNull(s)
    IN  IF Len(v) = 0 THEN Null
        ELSE CHOOSE x \in {v[i] : i \in 1..Len(v)} :
                 \A j \in 1..Len(v) : ~RLess(v[j], x)

\* Sample variance (ddof = 1): NaN with fewer than two observations.
SeriesVar(s) ==
    LET v == NonNull(s)
        n == Len(v)
        m == SeriesMean(s)
    IN  IF n < 2 THEN Null
        ELSE RDiv(RSum([i \in 1..n |-> RMul(RSub(v[i], m), RSub(v[i], m))]),
                  Num(n - 1))

\* s * sqrt(q) for a rational q >= 0; NaN stays NaN.
Root(s, q) ==
    IF IsNull(q) THEN Null
    ELSE IF q[1] = 0 \/ s = 0 THEN <<0, 0, 1>>
    ELSE <<s, q[1], q[2]>>

SeriesStd(s) == Root(1, SeriesVar(s))

RootPositive(r) == ~IsNull(r) /\ r[1] > 0

\* root * k for an integer k > 0.
RootScale(r, k) == IF IsNull(r) THEN Null ELSE Root(r[1], Q(r[2] * k * k, r[3]))

\* (m / std) * sqrt(k): the quotient of a rational by a root, times a root.
RDivRootTimesSqrt(m, std, k) ==
    IF IsNull(m) \/ IsNull(std) THEN Null
    ELSE IF std[1] = 0
         THEN (IF m[1] = 0 THEN Null ELSE <<Sign(m[1]), 1, 0>>)
         ELSE Root(Sign(m[1]) * std[1],
                   RDiv(RMul(RMul(m, m), Num(k)), <<std[2], std[3]>>))

(***************************************************************************)
(* DataFrames: the column labels and the rows in index order.              *)
(***************************************************************************)
BaseColumns == {"date", "price", "volume", "market_cap"}

DerivedColumns ==
    {"price_change", "volume_sma_7", "price_sma_7", "price_sma_30", "volatility"}

Frame(cols, rows) == [cols |-> cols, rows |-> rows]

\* pd.DataFrame()
EmptyFrame == Frame({}, <<>>)

\* DataFrame.empty: an axis of length 0.
FrameEmpty(d) == Len(d.rows) = 0 \/ d.cols = {}

Column(d, c) == [i \in 1..Len(d.rows) |-> d.rows[i][c]]

MetricKeys ==
    {"total_return", "max_price", "min_price", "avg_volume", "volatility",
     "sharpe_ratio"}

StatKeys ==
    {"current_price", "price_change_24h", "market_cap", "total_volume",
     "circulating_supply", "last_updated"}

\* A dict: its keys and their values (a key not in the dict reads Null here).
Dict(keys, val) == [keys |-> keys, val |-> val]

EmptyDict == Dict({}, [k \in MetricKeys |-> Null])

\* What the network answered: kind is "ok", "timeout", "connection", "status"
\* (non-2xx) or "json" (a body that is not JSON); an "ok" body may lack a key
\* (missing), carries the timestamps of its prices array (ts, milliseconds)
\* and may have a total_volumes array one item short (short).
Response(kind, missing, ts, short) ==
    [kind |-> kind, missing |-> missing, ts |-> ts, short |-> short]

NoResponse == Response("none", "none", <<>>, FALSE)

\* What a call did besides returning: the requests it sent, whether the cache
\* answered (hit), the st.* messages shown, and the response it got.
Effects(sent, hit, reports, resp) ==
    [sent |-> sent, hit |-> hit, reports |-> reports, resp |-> resp]

NoEffects == Effects(<<>>, FALSE, <<>>, NoResponse)

\* What a call did: the value it returned or the exception it let out.
Returned(op, arg, at, frame, dict, fx) ==
    [op |-> op, arg |-> arg, at |-> at, exc |-> "none", frame |-> frame,
     dict |-> dict, fx |-> fx]

Raised(op, arg, at, exc, fx) ==
    [op |-> op, arg |-> arg, at |-> at, exc |-> exc, frame |-> EmptyFrame,
     dict |-> EmptyDict, fx |-> fx]

NoCall == Returned("none", <<>>, 0, EmptyFrame, EmptyDict, NoEffects)

(***************************************************************************)
(* filter_data_by_date and calculate_metrics.                              *)
(***************************************************************************)
\* Mutant: the end bound excluded.
DateMask_open_end(d, start_date, end_date) ==
    [i \in 1..Len(d.rows) |->
        /\ RLeq(Num(start_date), d.rows[i].date)
        /\ RLess(d.rows[i].date, Num(end_date))]

\* (df['date'] >= start_date) & (df['date'] <= end_date)
DateMask(d, start_date, end_date) ==
    [i \in 1..Len(d.rows) |->
        /\ RLeq(Num(start_date), d.rows[i].date)
        /\ RLeq(d.rows[i].date, Num(end_date))]

\* df.loc[mask]: the rows whose mask is True, in index order.
RECURSIVE LocRange(_, _, _, _)
LocRange(rows, mask, lo, hi) ==
    IF lo > hi THEN <<>>
    ELSE IF lo = hi THEN (IF mask[lo] THEN <<rows[lo]>> ELSE <<>>)
    ELSE LET mid == (lo + hi) \div 2
         IN  LocRange(rows, mask, lo, mid) \o LocRange(rows, mask, mid + 1, hi)

Loc(rows, mask) == LocRange(rows, mask, 1, Len(rows))

filter_data_by_date(d, start_date, end_date) ==
    IF "date" \notin d.cols
    THEN [exc |-> "KeyError", frame |-> EmptyFrame]
    ELSE [exc |-> "none",
          frame |-> Frame(d.cols, Loc(d.rows, DateMask(d, start_date, end_date)))]

\* Mutant: the return measured from the last price to the first.
TotalReturn_reversed(d) ==
    RMul(RSub(RDiv(d.rows[1].price, d.rows[Len(d.rows)].price), Num(1)), Num(100))

\* ((df['price'].iloc[-1] / df['price'].iloc[0]) - 1) * 100
TotalReturn(d) ==
    RMul(RSub(RDiv(d.rows[Len(d.rows)].price, d.rows[1].price), Num(1)), Num(100))

\* Mutant: the quotient taken without the std > 0 test.
SharpeRatio_unguarded(d) ==
    RDivRootTimesSqrt(SeriesMean(Column(d, "price_change")),
                      SeriesStd(Column(d, "price_change")), 365)

\* (mean / std) * (365 ** 0.5) if std > 0 else 0
SharpeRatio(d) ==
    IF RootPositive(SeriesStd(Column(d, "price_change")))
    THEN RDivRootTimesSqrt(SeriesMean(Column(d, "price_change")),
                           SeriesStd(Column(d, "price_change")), 365)
    ELSE Num(0)

\* Mutant: zero-filled metrics for an empty frame.
calculate_metrics_zero_filled(d) ==
    IF FrameEmpty(d)
    THEN [exc |-> "none", dict |-> Dict(MetricKeys, [k \in MetricKeys |-> Num(0)])]
    ELSE IF ~({"price", "volume", "price_change"} \subseteq d.cols)
    THEN [exc |-> "KeyError", dict |-> EmptyDict]
    ELSE [exc |-> "none",
          dict |-> Dict(MetricKeys,
             [total_return |-> TotalReturn(d),
              max_price |-> SeriesMax(Column(d, "price")),
              min_price |-> SeriesMin(Column(d, "price")),
              avg_volume |-> SeriesMean(Column(d, "volume")),
              volatility |-> RootScale(SeriesStd(Column(d, "price_change")), 100),
              sharpe_ratio |-> SharpeRatio(d)])]

calculate_metrics(d) ==
    IF FrameEmpty(d) THEN [exc |-> "none", dict |-> EmptyDict]
    ELSE IF ~({"price", "volume", "price_change"} \subseteq d.cols)
    THEN [exc |-> "KeyError", dict |-> EmptyDict]
    ELSE [exc |-> "none",
          dict |-> Dict(MetricKeys,
             [total_return |-> TotalReturn(d),
              max_price |-> SeriesMax(Column(d, "price")),
              min_price |-> SeriesMin(Column(d, "price")),
              avg_volume |-> SeriesMean(Column(d, "volume")),
              volatility |-> RootScale(SeriesStd(Column(d, "price_change")), 100),
              sharpe_ratio |-> SharpeRatio(d)])]

(***************************************************************************)
(* load_sample_data.                                                       *)
(*                                                                         *)
(* numpy's global generator is its seed and the number of values drawn     *)
(* since seeding; the Mersenne Twister stream is abstracted by Mix, a      *)
(* fixed function of the two.  A normal draw is held in thousandths and    *)
(* has no lower bound: the abstraction includes draws below -1, which      *)
(* take current_price under zero.  Prices of the walk are rounded down to  *)
(* whole dollars.                                                          *)
(***************************************************************************)
DAY == 86400

SampleDays == 30

SampleSeed == 42

BasePrice == 45000

PriceFloor == 1000

Mix(seed, pos) == ((seed + 1) * 7919 + pos * 104729 + pos * pos * 31) % 10007

\* np.random.normal(0, 0.02), in thousandths.
NormalDraw(g, k) ==
    LET m == Mix(g.seed, g.pos + k)
    IN  IF m % 13 = 0 THEN -1200 ELSE (m % 61) - 30

\* np.random.uniform(lo, hi), on the integers lo..hi-1.
UniformDraw(g, k, lo, hi) == lo + (Mix(g.seed, g.pos + k) % (hi - lo))

\* Mutant: the generator left as it was.
Seeded_skipped(g, seed) == g

\* np.random.seed(seed)
Seeded(g, seed) == [seed |-> seed, pos |-> 0]

Advanced(g, n) == [seed |-> g.seed, pos |-> g.pos + n]

\* pd.date_range(start, end, freq='D')
DateRange(start, end) ==
    [i \in 1..((end - start) \div DAY + 1) |-> start + (i - 1) * DAY]

\* Mutant: the price appended without the floor.
Floored_absent(price) == price

\* max(current_price, 1000)
Floored(price) == IF price > PriceFloor THEN price ELSE PriceFloor

\* The loop over dates, steps lo..hi from current_price cur: the last
\* current_price and the prices appended.
RECURSIVE Walk(_, _, _, _)
Walk(g, cur, lo, hi) ==
    IF lo > hi THEN [cur |-> cur, prices |-> <<>>]
    ELSE IF lo = hi
    THEN LET next == (cur * (1000 + NormalDraw(g, lo - 1))) \div 1000
         IN  [cur |-> next, prices |-> <<Floored(next)>>]
    ELSE LET mid == (lo + hi) \div 2
             left == Walk(g, cur, lo, mid)
         IN  \* The test makes TLC evaluate the first half before the second.
             IF left.cur = left.cur
             THEN LET right == Walk(g, left.cur, mid + 1, hi)
                  IN  [cur |-> right.cur, prices |-> left.prices \o right.prices]
             ELSE left

\* pd.to_datetime(df['date']) on the file's dates (calendar days).
ParsedDates(frame) ==
    Frame(frame.cols,
          [i \in 1..Len(frame.rows) |->
              [frame.rows[i] EXCEPT !.date = RMul(@, Num(DAY))]])

\* The generated frame for the dates, from generator g.
Generated(dates, g) ==
    LET n == Len(dates)
        prices == Walk(g, BasePrice, 1, n).prices
    IN  Frame(BaseColumns \cup DerivedColumns,
          [i \in 1..n |->
              [date |-> Num(dates[i]),
               price |-> Num(prices[i]),
               volume |-> Num(UniformDraw(g, n + i - 1, 20000, 50000)),
               market_cap |-> Num(prices[i] * Supply),
               price_change |->
                   IF i = 1 THEN Num(0)
                   ELSE RSub(RDiv(Num(prices[i]), Num(prices[i - 1])), Num(1)),
               price_sma_7 |-> Num(prices[i]),
               price_sma_30 |-> Num(prices[i]),
               volume_sma_7 |-> Num(UniformDraw(g, 2 * n + i - 1, 20000, 50000)),
               volatility |-> Q(UniformDraw(g, 3 * n + i - 1, 10, 50), 1000)]])

\* The frame returned and the generator left behind, for the file on disk,
\* the clock and the generator.
load_sample_data(file, clock, g) ==
    IF file.present
    THEN [exc |-> "none", frame |-> ParsedDates(file.frame), rng |-> g]
    ELSE LET dates == DateRange(clock - SampleDays * DAY, clock)
         IN  [exc |-> "none",
              frame |-> Generated(dates, Seeded(g, SampleSeed)),
              rng |-> Advanced(Seeded(g, SampleSeed), 4 * Len(dates))]

(***************************************************************************)
(* fetch_bitcoin_data: the function under the cache decorator.             *)
(***************************************************************************)
\* The market_chart arrays of an "ok" body, item by item.
LivePrice(i) == 100 + ((i * 7) % 5) * 10

LiveVolume(i) == 20000 + ((i * 3) % 4) * 1000

\* "interval": "daily" if days > 90 else "hourly"
Interval(days) == IF days > 90 THEN "daily" ELSE "hourly"

\* What requests.get, raise_for_status and response.json() raise.
RequestError(resp) ==
    CASE resp.kind = "timeout" -> "Timeout"
      [] resp.kind = "connection" -> "ConnectionError"
      [] resp.kind = "status" -> "HTTPError"
      [] resp.kind = "json" -> "JSONDecodeError"
      [] OTHER -> "none"

\* The subclasses of requests.exceptions.RequestException.
IsRequestException(exc) ==
    exc \in {"Timeout", "ConnectionError", "HTTPError", "JSONDecodeError"}

\* pd.DataFrame({...}) and pd.to_datetime(df['timestamp'], unit='ms').
RawRows(resp) ==
    [i \in 1..Len(resp.ts) |->
        [date |-> Q(resp.ts[i], 1000),
         price |-> Num(LivePrice(i)),
         volume |-> Num(LiveVolume(i)),
         market_cap |-> Num(LivePrice(i) * Supply)]]

\* Series.pct_change()
PctChange(col) ==
    [i \in 1..Len(col) |->
        IF i = 1 THEN Null ELSE RSub(RDiv(col[i], col[i - 1]), Num(1))]

\* The window of w observations ending at i, when all w are there.
WindowFull(col, w, i) ==
    /\ i >= w
    /\ \A j \in (i - w + 1)..i : ~IsNull(col[j])

\* Series.rolling(window=w).mean()
RollingMean(col, w) ==
    [i \in 1..Len(col) |->
        IF WindowFull(col, w, i) THEN SeriesMean(SubSeq(col, i - w + 1, i))
        ELSE Null]

\* Series.rolling(window=w).std()
RollingStd(col, w) ==
    [i \in 1..Len(col) |->
        IF WindowFull(col, w, i) THEN SeriesStd(SubSeq(col, i - w + 1, i))
        ELSE Null]

\* The five derived columns, computed on the rows in the order given.
WithDerived(rows) ==
    LET price == [i \in 1..Len(rows) |-> rows[i].price]
        volume == [i \in 1..Len(rows) |-> rows[i].volume]
        change == PctChange(price)
        vsma7 == RollingMean(volume, 7)
        psma7 == RollingMean(price, 7)
        psma30 == RollingMean(price, 30)
        vol == RollingStd(change, 7)
    IN  [i \in 1..Len(rows) |->
            [date |-> rows[i].date, price |-> rows[i].price,
             volume |-> rows[i].volume, market_cap |-> rows[i].market_cap,
             price_change |-> change[i], volume_sma_7 |-> vsma7[i],
             price_sma_7 |-> psma7[i], price_sma_30 |-> psma30[i],
             volatility |-> vol[i]]]

\* Mutant: the rows left in the order of the response.
SortValues_skipped(rows) == rows

\* df.sort_values('date').reset_index(drop=True): ascending, NaT last, rows of
\* equal date in their former order.
SortValues(rows) ==
    LET n == Len(rows)
        Before(j, i) ==
            \/ RLess(rows[j].date, rows[i].date)
            \/ ~IsNull(rows[j].date) /\ IsNull(rows[i].date)
            \/ rows[j].date = rows[i].date /\ j < i
        place == [i \in 1..n |-> 1 + Cardinality({j \in 1..n : Before(j, i)})]
    IN  [k \in 1..n |-> rows[CHOOSE i \in 1..n : place[i] = k]]

\* The try block: the frame built, or the exception raised in it.
FetchBody(days, resp) ==
    IF RequestError(resp) # "none"
    THEN [exc |-> RequestError(resp), frame |-> EmptyFrame]
    ELSE IF resp.missing # "none"
    THEN [exc |-> "KeyError", frame |-> EmptyFrame]
    ELSE IF resp.short
    THEN [exc |-> "ValueError", frame |-> EmptyFrame]
    ELSE [exc |-> "none",
          frame |-> Frame(BaseColumns \cup DerivedColumns,
                          SortValues(WithDerived(RawRows(resp))))]

\* Mutant: only the RequestException clause.
ExceptClause_requests_only(exc) ==
    IF IsRequestException(exc) THEN "RequestException" ELSE "none"

\* The except clause that handles an exception of the try block.
ExceptClause(exc) ==
    IF IsRequestException(exc) THEN "RequestException" ELSE "Exception"

fetch_bitcoin_data(days, resp, file, clock, g) ==
    LET body == FetchBody(days, resp)
        sample == load_sample_data(file, clock, g)
    IN  IF body.exc = "none"
        THEN [exc |-> "none", frame |-> body.frame, rng |-> g, reports |-> <<>>]
        ELSE IF ExceptClause(body.exc) # "none"
        THEN [exc |-> sample.exc, frame |-> sample.frame, rng |-> sample.rng,
              reports |-> <<"error">>]
        ELSE [exc |-> body.exc, frame |-> EmptyFrame, rng |-> g, reports |-> <<>>]

(***************************************************************************)
(* get_current_stats: the function under the cache decorator.              *)
(***************************************************************************)
\* The snapshot an "ok" body carries at the clock's time.
LiveStats(clock) ==
    [current_price |-> Num(50000), price_change_24h |-> Q(-3, 2),
     market_cap |-> Num(50000 * Supply), total_volume |-> Num(30000),
     circulating_supply |-> Num(Supply), last_updated |-> Num(clock)]

FallbackStats(clock) ==
    [current_price |-> Num(45000), price_change_24h |-> Q(5, 2),
     market_cap |-> Num(850000), total_volume |-> Num(25000),
     circulating_supply |-> Num(19), last_updated |-> Num(clock)]

\* The try block: the dict built, or the exception raised in it.
StatsBody(resp, clock) ==
    IF RequestError(resp) # "none"
    THEN [exc |-> RequestError(resp), dict |-> EmptyDict]
    ELSE IF resp.missing # "none"
    THEN [exc |-> "KeyError", dict |-> EmptyDict]
    ELSE [exc |-> "none", dict |-> Dict(StatKeys, LiveStats(clock))]

\* Mutant: a handler for request errors only.
StatsHandles_requests_only(exc) == IsRequestException(exc)

\* except Exception
StatsHandles(exc) == TRUE

get_current_stats(resp, clock) ==
    LET body == StatsBody(resp, clock)
    IN  IF body.exc = "none"
        THEN [exc |-> "none", dict |-> body.dict, reports |-> <<>>]
        ELSE IF StatsHandles(body.exc)
        THEN [exc |-> "none", dict |-> Dict(StatKeys, FallbackStats(clock)),
              reports |-> <<"warning">>]
        ELSE [exc |-> body.exc, dict |-> EmptyDict, reports |-> <<>>]

(***************************************************************************)
(* st.cache_data(ttl=...): an entry answers until ttl seconds after it was *)
(* stored.                                                                 *)
(***************************************************************************)
TTL_SERIES == 300

TTL_STATS == 3600

\* Mutant: an entry of fallback data (stored with its report) is not served.
Fresh_live_only(entry, clock, ttl) ==
    entry.full /\ clock < entry.at + ttl /\ entry.reports = <<>>

\* Mutant: an entry that answers without regard to its age.
Fresh_forever(entry, clock, ttl) == entry.full

Fresh(entry, clock, ttl) == entry.full /\ clock < entry.at + ttl

(***************************************************************************)
(* The state: the wall clock, the bundled file, numpy's global generator,  *)
(* the two st.cache_data caches, the frame the caller holds, and what the  *)
(* last call did.                                                          *)
(***************************************************************************)
Absent == [present |-> FALSE, frame |-> EmptyFrame]

NoEntry ==
    [full |-> FALSE, frame |-> EmptyFrame, dict |-> EmptyDict, at |-> 0,
     reports |-> <<>>]

Unseeded == [seed |-> 0, pos |-> 0]

DaysValues == {30, 120}

InitService ==
    /\ now = 0
    /\ rng = Unseeded
    /\ seriesCache = [d \in DaysValues |-> NoEntry]
    /\ statsCache = NoEntry
    /\ ret = NoCall

(***************************************************************************)
(* The caller's steps on the frame it holds (app.py main and the tests).   *)
(***************************************************************************)
FilterDataByDate(start_date, end_date) ==
    /\ ret' = LET r == filter_data_by_date(df, start_date, end_date)
              IN  IF r.exc = "none"
                  THEN Returned("filter_data_by_date", <<start_date, end_date>>,
                                now, r.frame, EmptyDict, NoEffects)
                  ELSE Raised("filter_data_by_date", <<start_date, end_date>>,
                              now, r.exc, NoEffects)
    /\ UNCHANGED <<now, bundled, rng, seriesCache, statsCache, df>>

CalculateMetrics ==
    /\ ret' = LET r == calculate_metrics(df)
              IN  IF r.exc = "none"
                  THEN Returned("calculate_metrics", <<>>, now, EmptyFrame, r.dict,
                                NoEffects)
                  ELSE Raised("calculate_metrics", <<>>, now, r.exc, NoEffects)
    /\ UNCHANGED <<now, bundled, rng, seriesCache, statsCache, df>>

\* df = <call>(...): the caller binds the frame the last call returned.
Bind ==
    /\ ret.exc = "none"
    /\ ret.op \in {"filter_data_by_date", "fetch_bitcoin_data", "load_sample_data"}
    /\ df' = ret.frame
    /\ ret' = NoCall
    /\ UNCHANGED <<now, bundled, rng, seriesCache, statsCache>>

(***************************************************************************)
(* The service: the cached calls, the Refresh button and the clock.        *)
(***************************************************************************)
\* BitcoinDataLoader.fetch_bitcoin_data(days=days), through its cache.
FetchBitcoinData(days, resp) ==
    LET entry == seriesCache[days]
        r == fetch_bitcoin_data(days, resp, bundled, now, rng)
        fx == Effects(<<Interval(days)>>, FALSE, r.reports, resp)
    IN  IF Fresh(entry, now, TTL_SERIES)
        THEN /\ ret' = Returned("fetch_bitcoin_data", <<days>>, now, entry.frame,
                                EmptyDict,
                                Effects(<<>>, TRUE, entry.reports, NoResponse))
             /\ UNCHANGED <<now, bundled, rng, seriesCache, statsCache, df>>
        ELSE /\ rng' = r.rng
             /\ IF r.exc = "none"
                THEN /\ ret' = Returned("fetch_bitcoin_data", <<days>>, now,
                                        r.frame, EmptyDict, fx)
                     /\ seriesCache' =
                            [seriesCache EXCEPT ![days] =
                                [full |-> TRUE, frame |-> r.frame,
                                 dict |-> EmptyDict, at |-> now,
                                 reports |-> r.reports]]
                ELSE /\ ret' = Raised("fetch_bitcoin_data", <<days>>, now, r.exc, fx)
                     /\ UNCHANGED seriesCache
             /\ UNCHANGED <<now, bundled, statsCache, df>>

\* BitcoinDataLoader.get_current_stats(), through its cache.
GetCurrentStats(resp) ==
    LET r == get_current_stats(resp, now)
        fx == Effects(<<"coins/bitcoin">>, FALSE, r.reports, resp)
    IN  IF Fresh(statsCache, now, TTL_STATS)
        THEN /\ ret' = Returned("get_current_stats", <<>>, now, EmptyFrame,
                                statsCache.dict,
                                Effects(<<>>, TRUE, statsCache.reports, NoResponse))
             /\ UNCHANGED <<now, bundled, rng, seriesCache, statsCache, df>>
        ELSE /\ IF r.exc = "none"
                THEN /\ ret' = Returned("get_current_stats", <<>>, now,
                                        EmptyFrame, r.dict, fx)
                     /\ statsCache' =
                            [full |-> TRUE, frame |-> EmptyFrame, dict |-> r.dict,
                             at |-> now, reports |-> r.reports]
                ELSE /\ ret' = Raised("get_current_stats", <<>>, now, r.exc, fx)
                     /\ UNCHANGED statsCache
             /\ UNCHANGED <<now, bundled, rng, seriesCache, df>>

\* BitcoinDataLoader.load_sample_data(), called directly (the tests).
LoadSampleData ==
    LET r == load_sample_data(bundled, now, rng)
    IN  /\ rng' = r.rng
        /\ ret' = IF r.exc = "none"
                  THEN Returned("load_sample_data", <<>>, now, r.frame, EmptyDict,
                                NoEffects)
                  ELSE Raised("load_sample_data", <<>>, now, r.exc, NoEffects)
        /\ UNCHANGED <<now, bundled, seriesCache, statsCache, df>>

\* The Refresh Data button: st.cache_data.clear() and a rerun.
RefreshData ==
    /\ seriesCache' = [d \in DaysValues |-> NoEntry]
    /\ statsCache' = NoEntry
    /\ ret' = Returned("clear", <<>>, now, EmptyFrame, EmptyDict, NoEffects)
    /\ UNCHANGED <<now, bundled, rng, df>>

\* The instants the clock is read at: either side of each ttl.
SeriesInstants == {0, TTL_SERIES - 1, TTL_SERIES}

StatsInstants == {0, TTL_STATS - 1, TTL_STATS}

\* Time passes, to a later one of the instants.
Tick(instants) ==
    /\ now' \in {t \in instants : t > now}
    /\ UNCHANGED <<bundled, rng, seriesCache, statsCache, df, ret>>

\* The bundled data/bitcoin_sample.csv: absent, or a table of the columns
\* date, price, volume, market_cap (dates as calendar days).
FileRow(day, price, volume) ==
    [date |-> day, price |-> price, volume |-> volume,
     market_cap |-> RMul(price, Num(Supply))]

BundledFiles ==
    {Absent,
     [present |-> TRUE,
      frame |-> Frame(BaseColumns,
                      <<FileRow(Num(1), Num(40000), Num(20000)),
                        FileRow(Num(2), Num(41000), Num(21000))>>)],
     [present |-> TRUE,
      frame |-> Frame(BaseColumns,
                      <<FileRow(Num(2), Num(41000), Num(21000)),
                        FileRow(Num(1), Num(40000), Num(20000))>>)],
     [present |-> TRUE,
      frame |-> Frame(BaseColumns,
                      <<FileRow(Num(1), Num(40000), Null)>>)]}

FailureKinds == {"timeout", "connection", "status", "json"}

\* The timestamps of a well-formed body: distinct, in any order.
Timelines ==
    {ts \in UNION {[1..n -> {1000 * k : k \in 1..MaxPoints}] : n \in 0..MaxPoints} :
        \A i, j \in 1..Len(ts) : i # j => ts[i] # ts[j]}

SeriesResponses ==
    {Response(k, "none", <<>>, FALSE) : k \in FailureKinds}
    \cup {Response("ok", m, <<1000>>, FALSE) :
            m \in {"prices", "total_volumes", "market_caps"}}
    \cup {Response("ok", "none", <<1000, 2000>>, TRUE)}
    \cup {Response("ok", "none", ts, FALSE) : ts \in Timelines}

StatsResponses ==
    {Response(k, "none", <<>>, FALSE) : k \in FailureKinds}
    \cup {Response("ok", m, <<>>, FALSE) : m \in {"none", "market_data", "last_updated"}}

\* The responses that tell the cache's entries apart: a failure and two bodies.
CacheResponses ==
    {Response("timeout", "none", <<>>, FALSE),
     Response("ok", "none", <<1000>>, FALSE),
     Response("ok", "none", <<2000, 1000>>, FALSE)}

Init ==
    /\ InitService
    /\ bundled \in BundledFiles
    /\ df = EmptyFrame

\* The series cache over time.
Next ==
    \/ \E days \in DaysValues, resp \in CacheResponses : FetchBitcoinData(days, resp)
    \/ RefreshData
    \/ Tick(SeriesInstants)

Spec == Init /\ [][Next]_vars

\* fetch_bitcoin_data on every response.
NextFetch ==
    \/ \E days \in DaysValues, resp \in SeriesResponses : FetchBitcoinData(days, resp)
    \/ RefreshData

SpecFetch == Init /\ [][NextFetch]_vars

\* The stats cache over time.
NextStats ==
    \/ \E resp \in StatsResponses : GetCurrentStats(resp)
    \/ RefreshData
    \/ Tick(StatsInstants)

SpecStats == Init /\ [][NextStats]_vars

\* The date picker's ranges: from k days back to today, both at midnight.
PickerBounds == {<<-(k * DAY), 0>> : k \in {0, 7, 90}}

\* load_sample_data at any time, and the caller's filter on its frame.
NextSample ==
    \/ LoadSampleData
    \/ Tick(SeriesInstants \cup StatsInstants)
    \/ Bind
    \/ \E b \in PickerBounds : FilterDataByDate(b[1], b[2])

SpecSample == Init /\ [][NextSample]_vars

(***************************************************************************)
(* The pure functions on bounded inputs.                                   *)
(***************************************************************************)
FixtureLen == 30

\* test_calculate_metrics: prices 100..129, volume 1,000,000, 1% daily change.
TestFrame ==
    Frame(BaseColumns \cup {"price_change"},
          [i \in 1..FixtureLen |->
              [date |-> Num(i), price |-> Num(99 + i), volume |-> Num(1),
               market_cap |-> Num((99 + i) * Supply),
               price_change |-> Q(1, 100)]])

\* A frame with the four columns of the bundled file only.
BaseFrame ==
    Frame(BaseColumns,
          [i \in 1..2 |->
              [date |-> Num(i), price |-> Num(99 + i), volume |-> Num(1),
               market_cap |-> Num((99 + i) * Supply)]])

InputPrice == <<100, 110, 99>>

InputVolume == <<10, 20, 60>>

InputChange == <<Null, Q(1, 10), Q(-1, 10)>>

InputRows ==
    {[date |-> Num(t), price |-> Num(InputPrice[k]), volume |-> Num(InputVolume[k]),
      market_cap |-> Num(InputPrice[k] * Supply), price_change |-> InputChange[k]] :
        t \in 1..MaxDate, k \in 1..3}

InputFrames ==
    {Frame(BaseColumns \cup {"price_change"}, rows) :
        rows \in UNION {[1..n -> InputRows] : n \in 0..MaxLen}}
    \cup {TestFrame, BaseFrame, EmptyFrame}

InputBounds == ((1..MaxDate) \X (1..MaxDate)) \cup {<<5, 10>>}

InitPure ==
    /\ InitService
    /\ bundled = Absent
    /\ df \in InputFrames

NextPure ==
    \/ \E b \in InputBounds : FilterDataByDate(b[1], b[2])
    \/ CalculateMetrics
    \/ Bind

SpecPure == InitPure /\ [][NextPure]_vars

(***************************************************************************)
(* Claims on the pure functions, under SpecPure.                           *)
(***************************************************************************)
\* The index positions of the frame's rows dated within [lo, hi].
InRange(d, lo, hi) ==
    {i \in 1..Len(d.rows) :
        /\ ~IsNull(d.rows[i].date)
        /\ lo * d.rows[i].date[2] <= d.rows[i].date[1]
        /\ d.rows[i].date[1] <= hi * d.rows[i].date[2]}

\* The k-th smallest member of a set of positions.
KthOf(S, k) == CHOOSE i \in S : Cardinality({j \in S : j < i}) = k - 1

\* C2: filter_data_by_date returns exactly the rows whose date satisfies
\* start <= date <= end, both bounds included, in their input order, and an
\* empty frame (no exception) when no row is in range; on the 30 daily dates
\* D1..D30 with bounds [D5, D10] it returns 6 rows, D5 and D10 among them.
C2_FilterInclusive ==
    (ret.op = "filter_data_by_date" /\ "date" \in df.cols) =>
        LET S == InRange(df, ret.arg[1], ret.arg[2])
            out == ret.frame.rows
        IN  /\ ret.exc = "none"
            /\ Len(out) = Cardinality(S)
            /\ \A k \in 1..Len(out) : out[k] = df.rows[KthOf(S, k)]
            /\ (df = TestFrame /\ ret.arg = <<5, 10>>) =>
                  /\ Len(out) = 6
                  /\ out[1].date = Num(5)
                  /\ out[6].date = Num(10)

C2_Witness ==
    /\ ret.op = "filter_data_by_date"
    /\ df = TestFrame
    /\ ret.arg = <<5, 10>>
    /\ Len(ret.frame.rows) = 6

RECURSIVE ColumnTotal(_, _, _, _)
ColumnTotal(d, c, lo, hi) ==
    IF lo > hi THEN 0
    ELSE IF lo = hi THEN d.rows[lo][c][1]
    ELSE ColumnTotal(d, c, lo, (lo + hi) \div 2)
         + ColumnTotal(d, c, (lo + hi) \div 2 + 1, hi)

\* C4: for a series with rows, total_return = (price[last]/price[first] - 1) * 100,
\* max_price and min_price are the extrema of price and avg_volume is the mean
\* of volume; for prices 100..129 at volume 1,000,000 these are 29, 129, 100
\* and 1,000,000 (Num(1), in millions).
C4_MetricFormulas ==
    (ret.op = "calculate_metrics" /\ ret.exc = "none" /\ Len(df.rows) > 0) =>
        LET n == Len(df.rows)
            first == df.rows[1].price[1]
            last == df.rows[n].price[1]
            m == ret.dict.val
        IN  /\ m.total_return[1] * first = (last - first) * 100 * m.total_return[2]
            /\ \E i \in 1..n : m.max_price = df.rows[i].price
            /\ \A i \in 1..n : df.rows[i].price[1] <= m.max_price[1]
            /\ \E i \in 1..n : m.min_price = df.rows[i].price
            /\ \A i \in 1..n : df.rows[i].price[1] >= m.min_price[1]
            /\ m.avg_volume[1] * n = ColumnTotal(df, "volume", 1, n) * m.avg_volume[2]
            /\ (df = TestFrame) =>
                  /\ m.total_return = Num(29)
                  /\ m.max_price = Num(129)
                  /\ m.min_price = Num(100)
                  /\ m.avg_volume = Num(1)

C4_Witness ==
    /\ ret.op = "calculate_metrics"
    /\ df = TestFrame
    /\ ret.dict.val.total_return = Num(29)

\* The price_change values of the frame that are not NaN.
Changes(d) == NonNull(Column(d, "price_change"))

\* The sample standard deviation of the changes is defined and not zero.
ChangesVary(d) ==
    /\ Len(Changes(d)) >= 2
    /\ \E i, j \in 1..Len(Changes(d)) : Changes(d)[i] # Changes(d)[j]

\* C5: sharpe_ratio is exactly 0 when the standard deviation of price_change
\* is not > 0 (all changes equal, or fewer than two of them); otherwise it is
\* mean / stddev * sqrt(365); it is never the result of a division by zero.
C5_SharpeGuard ==
    (ret.op = "calculate_metrics" /\ ret.exc = "none" /\ Len(df.rows) > 0) =>
        LET sharpe == ret.dict.val.sharpe_ratio
            mean == SeriesMean(Column(df, "price_change"))
            var == SeriesVar(Column(df, "price_change"))
        IN  /\ ~ChangesVary(df) => sharpe = Num(0)
            /\ ChangesVary(df) =>
                  /\ Len(sharpe) = 3
                  /\ sharpe[1] = Sign(mean[1])
                  /\ sharpe[1] # 0 =>
                        RMul(<<sharpe[2], sharpe[3]>>, var)
                            = RMul(RMul(mean, mean), Num(365))
            /\ ~IsNull(sharpe)
            /\ sharpe[Len(sharpe)] # 0

C5_Witness ==
    /\ ret.op = "calculate_metrics"
    /\ ret.exc = "none"
    /\ Len(df.rows) > 0
    /\ Len(Changes(df)) >= 2
    /\ ~ChangesVary(df)
    /\ ret.dict.val.sharpe_ratio = Num(0)

(***************************************************************************)
(* Claims on the service.                                                  *)
(***************************************************************************)
\* The request failed, or its body lacks a key the function reads.
Failed(resp) ==
    \/ resp.kind \in FailureKinds
    \/ resp.kind = "ok" /\ resp.missing # "none"

TwoSampleCalls ==
    /\ ret.op = "load_sample_data"
    /\ ret'.op = "load_sample_data"
    /\ ~bundled.present

\* C6 as stated: with no bundled file, any two calls of load_sample_data, at
\* any two moments, return identical frames, the date column included.
C6_BitIdentical == [][TwoSampleCalls => ret'.frame = ret.frame]_vars

\* C6 as amended: the two frames have the same 31 rows in every column but
\* date; the dates are the 31 days that end at the time of the call, so the
\* frames are identical when the calls read the same time.
C6_SameButDates ==
    [][TwoSampleCalls =>
        /\ Len(ret.frame.rows) = SampleDays + 1
        /\ Len(ret'.frame.rows) = SampleDays + 1
        /\ \A i \in 1..(SampleDays + 1) :
              /\ \A c \in (BaseColumns \cup DerivedColumns) \ {"date"} :
                    ret'.frame.rows[i][c] = ret.frame.rows[i][c]
              /\ ret'.frame.rows[i].date = Num(ret'.at - (SampleDays + 1 - i) * DAY)
        /\ (ret'.at = ret.at) => (ret'.frame = ret.frame)]_vars

\* A generated frame in the caller's hands and a later one just returned:
\* the same prices under other dates.
C6_Witness ==
    /\ ret.op = "load_sample_data"
    /\ ~bundled.present
    /\ Len(df.rows) = SampleDays + 1
    /\ Len(ret.frame.rows) = SampleDays + 1
    /\ df.rows[1].date # ret.frame.rows[1].date
    /\ \A i \in 1..(SampleDays + 1) : df.rows[i].price = ret.frame.rows[i].price

\* No NaN in any column, price, volume and market_cap above zero, dates
\* ascending.
PriceSeriesInvariants(d) ==
    /\ \A i \in 1..Len(d.rows) :
          /\ \A c \in d.cols : ~IsNull(d.rows[i][c])
          /\ RLess(Num(0), d.rows[i].price)
          /\ RLess(Num(0), d.rows[i].volume)
          /\ RLess(Num(0), d.rows[i].market_cap)
    /\ \A i \in 1..(Len(d.rows) - 1) : RLeq(d.rows[i].date, d.rows[i + 1].date)

\* C7: every frame load_sample_data returns, read from the bundled file or
\* generated, has no nulls, positive price, volume and market_cap, and dates in
\* ascending order.
C7_SampleInvariants ==
    (ret.op = "load_sample_data" /\ ret.exc = "none") =>
        PriceSeriesInvariants(ret.frame)

\* C8: for every days value and every outcome of the request, the frame
\* fetch_bitcoin_data returns is sorted ascending by date and has no null date,
\* price, volume or market_cap.
C8_FetchSortedNoNulls ==
    (ret.op = "fetch_bitcoin_data" /\ ret.exc = "none") =>
        /\ \A i \in 1..Len(ret.frame.rows) :
              \A c \in BaseColumns : ~IsNull(ret.frame.rows[i][c])
        /\ \A i \in 1..(Len(ret.frame.rows) - 1) :
              RLeq(ret.frame.rows[i].date, ret.frame.rows[i + 1].date)

\* A number: not NaN, not infinite.
Numeric(c) == Len(c) = 2 /\ c[2] # 0

Unexpired(days) ==
    /\ seriesCache[days].full
    /\ now - seriesCache[days].at < TTL_SERIES

\* This step is a call of fetch_bitcoin_data(days).
FetchStep(days) ==
    /\ ret'.op = "fetch_bitcoin_data"
    /\ ret'.arg = <<days>>
    /\ ret' # ret

\* C10: once fetch_bitcoin_data(days) has returned, a call with the same days
\* before the entry expires and before a clear returns the cached frame and
\* sends no request; an unexpired entry changes only by the Refresh clear; the
\* call after the expiry or the clear sends a request again.
C10_CachedUntilInvalidated ==
    [][\A days \in DaysValues :
        /\ (FetchStep(days) /\ Unexpired(days)) =>
              /\ ret'.fx.hit
              /\ ret'.fx.sent = <<>>
              /\ ret'.frame = seriesCache[days].frame
              /\ seriesCache' = seriesCache
        /\ (Unexpired(days) /\ seriesCache'[days] # seriesCache[days]) =>
              ret'.op = "clear"
        /\ (FetchStep(days) /\ ~Unexpired(days)) =>
              /\ ~ret'.fx.hit
              /\ Len(ret'.fx.sent) = 1
              /\ seriesCache'[days].at = now]_vars

\* A call answered from an entry stored earlier, while the other days value
\* has no entry.
C10_Witness ==
    /\ ret.op = "fetch_bitcoin_data"
    /\ ret.fx.hit
    /\ ret.at > seriesCache[ret.arg[1]].at
    /\ \E d \in DaysValues : ~seriesCache[d].full

(***************************************************************************)
(* The data core end to end: a frame from fetch_bitcoin_data or            *)
(* load_sample_data, filtered by date, then summarised (app.py main).      *)
(***************************************************************************)
\* The bundled file is present.
InitBundled ==
    /\ InitService
    /\ bundled \in BundledFiles \ {Absent}
    /\ df = EmptyFrame

\* Date ranges around the rows' dates: all of them, one day, the first seconds.
CoreBounds == {<<0, 2 * DAY>>, <<DAY, DAY>>, <<0, 2>>}

NextCore ==
    \/ \E days \in DaysValues, resp \in CacheResponses : FetchBitcoinData(days, resp)
    \/ LoadSampleData
    \/ Bind
    \/ \E b \in CoreBounds : FilterDataByDate(b[1], b[2])
    \/ CalculateMetrics

SpecCore == InitBundled /\ [][NextCore]_vars

\* calculate_metrics(filter_data_by_date(d, start_date, end_date)) returns.
PipelineCompletes(d, start_date, end_date) ==
    LET f == filter_data_by_date(d, start_date, end_date)
    IN  /\ f.exc = "none"
        /\ calculate_metrics(f.frame).exc = "none"

\* C11: on every frame fetch_bitcoin_data or load_sample_data returns, the
\* bundled file's frame of date, price, volume and market_cap included,
\* filter_data_by_date and then calculate_metrics return a result (the metrics
\* or the empty dict) and raise nothing.
C11_NoFatalPath ==
    (ret.op \in {"fetch_bitcoin_data", "load_sample_data"} /\ ret.exc = "none") =>
        \A b \in CoreBounds : PipelineCompletes(ret.frame, b[1], b[2])

\* C12: when fetch_bitcoin_data falls back to the sample data after a failed
\* request or an unreadable body, the call reports the failure once, at
\* warning level and not at error level.
C12_WarningOnce ==
    (ret.op = "fetch_bitcoin_data" /\ ~ret.fx.hit /\ Failed(ret.fx.resp)) =>
        ret.fx.reports = <<"warning">>

\* The request succeeded with a body whose three arrays have equal length.
WellFormed(resp) ==
    /\ resp.kind = "ok"
    /\ resp.missing = "none"
    /\ ~resp.short

\* C13: in the frame of a successful fetch_bitcoin_data the derived columns
\* follow the returned, date-ascending row order, whatever the order of the
\* response's timestamps: price_change is undefined in the first row and
\* price[i] / price[i-1] - 1 in every later row, price_sma_7 is the mean of
\* the price over the seven rows ending at i and undefined before the
\* seventh, and price_sma_30 is undefined before the thirtieth.
C13_DerivedFollowOrder ==
    (ret.op = "fetch_bitcoin_data" /\ ~ret.fx.hit /\ WellFormed(ret.fx.resp)) =>
        LET rows == ret.frame.rows
            price == [i \in 1..Len(rows) |-> rows[i].price]
        IN  \A i \in 1..Len(rows) :
                /\ rows[i].price_change =
                      IF i = 1 THEN Null
                      ELSE RSub(RDiv(price[i], price[i - 1]), Num(1))
                /\ rows[i].price_sma_7 =
                      IF i < 7 THEN Null
                      ELSE SeriesMean(SubSeq(price, i - 6, i))
                /\ (i < 30) => IsNull(rows[i].price_sma_30)

(***************************************************************************)
(* Both caches over time, with requests that fail and requests that        *)
(* succeed.                                                                *)
(***************************************************************************)
\* The API down, and the API back: a request that fails, one that succeeds.
DownAndUp ==
    {Response("timeout", "none", <<>>, FALSE),
     Response("ok", "none", <<1000>>, FALSE)}

NextCaches ==
    \/ \E days \in DaysValues, resp \in DownAndUp : FetchBitcoinData(days, resp)
    \/ \E resp \in DownAndUp : GetCurrentStats(resp)
    \/ RefreshData
    \/ Tick(SeriesInstants \cup StatsInstants)

SpecCaches == Init /\ [][NextCaches]_vars

\* This step is a call of get_current_stats().
StatsStep ==
    /\ ret'.op = "get_current_stats"
    /\ ret' # ret

\* The entry holds fallback data: it was stored by a call that reported a
\* failure.
HoldsFallback(entry) == entry.full /\ entry.reports # <<>>

\* C14: a call of fetch_bitcoin_data(days) or get_current_stats() that fails
\* stores its fallback in the cache like a live result; until the entry
\* expires or the cache is cleared, every call with the same arguments returns
\* that fallback and sends no request, whatever the API would answer.
C14_FallbackCached ==
    [][/\ \A days \in DaysValues :
            /\ (FetchStep(days) /\ ~ret'.fx.hit /\ Failed(ret'.fx.resp)) =>
                  /\ HoldsFallback(seriesCache'[days])
                  /\ seriesCache'[days].frame = ret'.frame
                  /\ seriesCache'[days].at = now
            /\ (FetchStep(days) /\ HoldsFallback(seriesCache[days])
                    /\ now - seriesCache[days].at < TTL_SERIES) =>
                  /\ ret'.fx.hit
                  /\ ret'.fx.sent = <<>>
                  /\ ret'.frame = seriesCache[days].frame
                  /\ seriesCache' = seriesCache
            /\ (HoldsFallback(seriesCache[days])
                    /\ now - seriesCache[days].at < TTL_SERIES
                    /\ seriesCache'[days] # seriesCache[days]) =>
                  ret'.op = "clear"
       /\ (StatsStep /\ ~ret'.fx.hit /\ Failed(ret'.fx.resp)) =>
             /\ HoldsFallback(statsCache')
             /\ statsCache'.dict = ret'.dict
             /\ statsCache'.at = now
       /\ (StatsStep /\ HoldsFallback(statsCache)
               /\ now - statsCache.at < TTL_STATS) =>
             /\ ret'.fx.hit
             /\ ret'.fx.sent = <<>>
             /\ ret'.dict = statsCache.dict
             /\ statsCache' = statsCache
       /\ (HoldsFallback(statsCache) /\ now - statsCache.at < TTL_STATS
               /\ statsCache' # statsCache) =>
             ret'.op = "clear"]_vars

\* A fallback frame served from the cache at a later time, while the stats
\* cache holds a fallback too.
C14_Witness ==
    /\ ret.op = "fetch_bitcoin_data"
    /\ ret.fx.hit
    /\ ret.fx.reports = <<"error">>
    /\ HoldsFallback(seriesCache[ret.arg[1]])
    /\ ret.frame = seriesCache[ret.arg[1]].frame
    /\ ret.at > seriesCache[ret.arg[1]].at
    /\ HoldsFallback(statsCache)

====
